---- MODULE Spec2Model ----
(***************************************************************************)
(* Model of the sub-agent launcher of chat-cli (tools/launch_agent.rs):    *)
(* SubAgentWrapper::invoke, SubAgent::invoke (launch + select loop),       *)
(* SubAgent::spawn_subagent (the runner task), run_subagent_loop and       *)
(* process_agent_results.                                                  *)
(*                                                                         *)
(* Text is a sequence of atoms: one atom per character of free text, one   *)
(* atom per fixed literal ("[SUMMARY]", "=== Agent ", ...).                *)
(***************************************************************************)
EXTENDS Integers, Sequences, FiniteSets, TLC

\* ---------------------------------------------------------------- bounds
MaxAgents == 2
MaxSteps == 1
MaxLoopSteps == 3

AgentIds == 0 .. (MaxAgents - 1)

\* ------------------------------------------------------------- constants
NestedMsg == <<"Nested subagent launch prevented for performance reasons.">>
LaunchingStatus == "Launching agent..."
FinishedStatus == "Agent finished"
U16 == 65536
LinesPerAgent == 3

\* ------------------------------------------------------------ text helpers
Whitespace == {" ", "\n"}

RECURSIVE TrimStart(_)
TrimStart(s) ==
    IF s = <<>> THEN <<>>
    ELSE IF Head(s) \in Whitespace THEN TrimStart(Tail(s))
    ELSE s

RECURSIVE TrimEnd(_)
TrimEnd(s) ==
    IF s = <<>> THEN <<>>
    ELSE IF s[Len(s)] \in Whitespace THEN TrimEnd(SubSeq(s, 1, Len(s) - 1))
    ELSE s

\* str::trim
Trim(s) == TrimEnd(TrimStart(s))

\* (?i) makes both tags match in either case
OpenTags == {"[SUMMARY]", "[summary]"}
CloseTags == {"[/SUMMARY]", "[/summary]"}

\* start positions at which the regex \[SUMMARY]\s*(.*?)\s*\[/SUMMARY] can match
MatchStarts(t) ==
    {p \in 1 .. Len(t) : /\ t[p] \in OpenTags
                         /\ \E q \in (p + 1) .. Len(t) : t[q] \in CloseTags}

Min(S) == CHOOSE x \in S : \A y \in S : x <= y

\* re.captures(&output).is_some()
HasSummary(t) == MatchStarts(t) # {}

\* captures.get(1) of the leftmost match, then .trim(): the lazy (.*?) stops
\* at the first closing tag after the opening tag
SummaryGreedy(t) ==
    LET p == Min(MatchStarts(t))
        q == CHOOSE k \in (p + 1) .. Len(t) :
                /\ t[k] \in CloseTags
                /\ \A j \in (k + 1) .. Len(t) : t[j] \notin CloseTags
    IN Trim(SubSeq(t, p + 1, q - 1))
Summary(t) ==
    LET p == Min(MatchStarts(t))
        q == Min({k \in (p + 1) .. Len(t) : t[k] \in CloseTags})
    IN Trim(SubSeq(t, p + 1, q - 1))

\* reader.read_line(&mut line): the bytes up to and including the next "\n"
RECURSIVE ReadLine(_)
ReadLine(buf) ==
    IF buf = <<>> THEN <<>>
    ELSE IF Head(buf) = "\n" THEN <<"\n">>
    ELSE <<Head(buf)>> \o ReadLine(Tail(buf))

\* while reader.read_line(&mut line)? > 0 { output.push_str(&line); line.clear() }
RECURSIVE ReadAll(_)
ReadAll(buf) ==
    IF buf = <<>> THEN <<>>
    ELSE LET line == ReadLine(buf)
         IN line \o ReadAll(SubSeq(buf, Len(line) + 1, Len(buf)))

\* Ok(output): without a match the whole text is the report
FallbackTrimmed(t) == Trim(t)
Fallback(t) == t

\* the report the spawned task derives from its buffer
ExtractSummary(buf) ==
    LET output == ReadAll(buf)
    IN IF HasSummary(output) THEN Summary(output) ELSE Fallback(output)

\* Option<Spinner>::None
NoSpinner == <<>>

\* ----------------------------------------------------------- outcomes
Success(text) == [kind |-> "Success", text |-> text, err |-> "-"]
Failure(e) == [kind |-> "Failure", text |-> <<>>, err |-> e]
TaskCrashed(e) == [kind |-> "TaskCrashed", text |-> <<>>, err |-> e]
NoOutcome == [kind |-> "None", text |-> <<>>, err |-> "-"]

\* -------------------------------------------------- process_agent_results
\* !stdout_output.trim().is_empty()
EmptyNoTrim(text) == text = <<>>
IsBlank(text) == Trim(text) = <<>>

Header(i) == <<"=== Agent ", ToString(i), " Output ===\n">>

\* the section pushed for one Ok(Ok(..)) result
Section(i, text) == Header(i) \o text \o <<"\n\n">>

\* i += 1 happens only inside the non-empty branch
LabelEveryResult(i, r) == i + 1
NextLabel(i, r) ==
    IF r.kind = "Success" /\ ~IsBlank(r.text) THEN i + 1 ELSE i

SetFg(c) == [op |-> "SetForegroundColor", arg |-> <<c>>]
StylePrint(text) == [op |-> "Print", arg |-> text]
ResetColor == [op |-> "ResetColor", arg |-> <<>>]

JoinLineSamePrefix(e) == <<"Failed to launch agent: ", e, "\n">>
FailureLine(e) == <<"Failed to launch agent: ", e, "\n">>
JoinErrorLine(e) == <<"Task join error: ", e, "\n">>

\* what one result queues on `updates`
ReportFailuresOnly(r) ==
    IF r.kind = "Failure"
    THEN <<SetFg("Red"), StylePrint(FailureLine(r.err)), ResetColor>>
    ELSE <<>>
ErrorOps(r) ==
    IF r.kind = "Failure"
    THEN <<SetFg("Red"), StylePrint(FailureLine(r.err)), ResetColor>>
    ELSE IF r.kind = "TaskCrashed"
    THEN <<SetFg("Red"), StylePrint(JoinErrorLine(r.err)), ResetColor>>
    ELSE <<>>

\* the loop over the results; `ok` says whether writes on `updates` succeed
RECURSIVE ProcessFrom(_, _, _, _, _)
ProcessFrom(rs, i, all_stdout, ups, ok) ==
    IF rs = <<>> THEN [kind |-> "Ok", all_stdout |-> all_stdout, updates |-> ups]
    ELSE LET r == Head(rs)
         IN IF r.kind # "Success" /\ ~ok
            THEN \* queue!(..)? returns the write error
                 [kind |-> "Err", all_stdout |-> <<>>, updates |-> ups]
            ELSE ProcessFrom(Tail(rs),
                             NextLabel(i, r),
                             IF r.kind = "Success" /\ ~IsBlank(r.text)
                             THEN all_stdout \o Section(i, r.text)
                             ELSE all_stdout,
                             ups \o ErrorOps(r),
                             ok)

process_agent_results(rs, ups, ok) == ProcessFrom(rs, 1, <<>>, ups, ok)

\* ------------------------------------------------------------------ state
VARIABLES
    q_subagent,       \* env var Q_SUBAGENT is set
    agents,           \* the launch list: <<[agent_display_name, agent_cli_name]>>
    sink_ok,          \* writes and flushes on `updates` succeed
    session_steps,    \* number of steps within which an embedded session ends
    call,             \* a direct call of one function: its arguments and result
    buffered_io,      \* a BufferedIO used directly: [buffer |-> bytes]
    written,          \* the operations made on buffered_io, in call order (history)
    pc,               \* position of the invoke call
    output,           \* value returned by invoke ("None" until it returns)
    next_id,          \* index of the launch loop
    status_tx,        \* the orchestrator still holds its sender
    chan,             \* status channel: per sender, events sent and not yet received
    task_handles,     \* JoinSet: ids whose handle is in the set
    agent_statuses,   \* the status board
    completed, all_agents_done, first_print,
    spinner,          \* Option<Spinner>: NoSpinner or the progress message shown
    done_msg,         \* "All agents have completed." was shown
    results,
    updates,          \* commands queued on `updates` since its last flush
    screen,           \* lines the flushed commands left on the display
    debug_log,        \* number of times debug.log was truncated
    listeners,        \* ctrl-c listener tasks spawned
    rpc,              \* position of each runner task
    inner,            \* ChatSession.inner of each runner
    tokens,           \* conversation size of each runner's session
    transcript,       \* BufferedIO.buffer of each runner
    loop_result,      \* what run_subagent_loop returned
    outcome,          \* what the runner's JoinHandle resolves to
    ctrlc_rx,         \* per agent: interrupts published since its receiver last received
    finished_sent,    \* per agent: "Agent finished" events put on the channel (history)
    finished_seen,    \* per agent: "Agent finished" events the loop received (history)
    join_order        \* ids in the order join_next delivered them (history)

launchEnv == <<q_subagent, agents, sink_ok, session_steps>>
envVars == <<launchEnv, call, buffered_io, written>>
orchVars == <<pc, output, next_id, status_tx, task_handles, agent_statuses,
              completed, all_agents_done, first_print, spinner, done_msg, results,
              updates, screen, debug_log, listeners, finished_seen, join_order>>
runVars == <<rpc, inner, tokens, transcript, loop_result, outcome, ctrlc_rx,
            finished_sent>>
vars == <<envVars, orchVars, runVars, chan>>

N == Len(agents)

\* agent_cli_name values; agents.switch fails for a profile that does not exist
KnownProfiles == {"dev"}
Profiles == {"None", "missing"}
SwitchOk(profile) == profile = "None" \/ profile \in KnownProfiles

Text(t) == [kind |-> "Text", text |-> t]
Err(e) == [kind |-> "Err", text |-> <<e>>]

\* prompt values: one whitespace-only, one with text
Prompts == {<<" ">>, <<"p">>}

AgentLists ==
    UNION {[1 .. n -> {[agent_display_name |-> <<"agent">>, prompt |-> pr,
                        agent_cli_name |-> p] :
                          p \in Profiles, pr \in Prompts}] : n \in 0 .. MaxAgents}

\* SubAgent::validate: nothing in SubAgentWrapper::invoke, SubAgent::invoke or
\* spawn_subagent calls it
validate(prompt) ==
    IF Trim(prompt) = <<>> THEN Err("Prompt cannot be empty") ELSE [kind |-> "Ok", text |-> <<>>]

\* The unbounded mpsc channel keeps the events of one sender in send order.
\* Sends of different runners are concurrent: the order in which two of them
\* land is not determined by anything the runners or the loop can observe, so
\* the channel is kept as one queue per sender and recv() takes the head of
\* any non-empty queue.
EmptyChan == [i \in AgentIds |-> <<>>]

\* BufferedIO::new
BufferedIO_new == [buffer |-> <<>>]

\* no direct call is under way
Pending == [kind |-> "Pending", all_stdout |-> <<>>, updates |-> <<>>]
NoCall == [fn |-> "none", arg |-> <<>>, ok |-> TRUE, ret |-> Pending]

\* the session lengths the specifications use
SessionLengths == {MaxSteps, MaxLoopSteps}

\* the state before the tool is invoked
Start ==
    /\ q_subagent \in BOOLEAN
    /\ agents \in AgentLists
    /\ sink_ok \in BOOLEAN
    /\ session_steps \in SessionLengths
    /\ pc = "Idle"
    /\ output = [kind |-> "None", text |-> <<>>]
    /\ next_id = 0
    /\ status_tx = FALSE
    /\ chan = EmptyChan
    /\ task_handles = {}
    /\ agent_statuses = <<>>
    /\ completed = 0
    /\ all_agents_done = FALSE
    /\ first_print = TRUE
    /\ spinner = NoSpinner
    /\ done_msg = FALSE
    /\ results = <<>>
    /\ updates = <<>>
    /\ screen = <<>>
    /\ debug_log = 0
    /\ listeners = 0
    /\ rpc = [i \in AgentIds |-> "unspawned"]
    /\ inner = [i \in AgentIds |-> "HandleInput"]
    /\ tokens = [i \in AgentIds |-> 0]
    /\ transcript = [i \in AgentIds |-> <<>>]
    /\ loop_result = [i \in AgentIds |-> "None"]
    /\ outcome = [i \in AgentIds |-> NoOutcome]
    /\ ctrlc_rx = [i \in AgentIds |-> 0]
    /\ finished_sent = [i \in AgentIds |-> 0]
    /\ finished_seen = [i \in AgentIds |-> 0]
    /\ join_order = <<>>
    /\ buffered_io = BufferedIO_new
    /\ written = <<>>

Init == Start /\ call = NoCall /\ session_steps = MaxSteps

\* invoke returns v: the channel, the JoinSet and the locals of the call are dropped
Return(v) ==
    /\ pc' = "Returned"
    /\ output' = v
    /\ status_tx' = FALSE
    /\ chan' = EmptyChan
    /\ task_handles' = {}
    /\ agent_statuses' = <<>>
    /\ next_id' = 0
    /\ completed' = 0
    /\ all_agents_done' = FALSE
    /\ first_print' = TRUE
    /\ spinner' = NoSpinner
    /\ results' = <<>>

\* ------------------------------------------------- SubAgentWrapper::invoke
\* std::env::var("Q_SUBAGENT").is_ok()
GuardIgnored(q) == FALSE
NestedGuard(q) == q

\* agents.iter().map(|_| ("Launching agent...", 0)).collect()
InitialStatuses(n) == [k \in 1 .. n |-> [status |-> LaunchingStatus, tokens_used |-> 0]]

\* the guard, then the prologue of SubAgent::invoke up to the launch loop
WrapperInvoke ==
    /\ pc = "Idle"
    /\ IF NestedGuard(q_subagent)
       THEN /\ pc' = "Returned"
            /\ output' = Text(NestedMsg)
            /\ UNCHANGED <<status_tx, agent_statuses, debug_log, chan, next_id,
                           task_handles, completed, all_agents_done,
                           first_print, spinner, results>>
       ELSE \E fs_ok \in BOOLEAN :
              IF fs_ok
              THEN /\ pc' = "Launching"
                   /\ status_tx' = TRUE
                   /\ agent_statuses' = InitialStatuses(N)
                   /\ debug_log' = debug_log + 1
                   /\ UNCHANGED <<output, chan, next_id, task_handles,
                                  completed, all_agents_done, first_print,
                                  spinner, results>>
              ELSE \* std::fs::write("debug.log", "")?
                   /\ Return(Err("debug.log"))
                   /\ UNCHANGED debug_log
    /\ UNCHANGED <<envVars, runVars, done_msg, updates, screen, listeners,
                   finished_seen, join_order>>

\* ------------------------------------------------ SubAgent::invoke: launch
\* one iteration of the launch loop: spawn_subagent up to tokio::task::spawn,
\* then task_handles.spawn(handle)
SpawnSubagent ==
    /\ pc = "Launching"
    /\ next_id < N
    /\ listeners' = listeners + 1
    /\ IF SwitchOk(agents[next_id + 1].agent_cli_name)
       THEN /\ rpc' = [rpc EXCEPT ![next_id] = "init"]
            /\ task_handles' = task_handles \cup {next_id}
            /\ next_id' = next_id + 1
            /\ UNCHANGED <<pc, output, status_tx, chan, agent_statuses,
                           completed, all_agents_done, first_print, spinner,
                           results>>
       ELSE \* subagent_conversation_state.agents.switch(&agent_name)?
            /\ Return(Err("switch"))
            /\ UNCHANGED rpc
    /\ UNCHANGED <<envVars, inner, tokens, transcript, loop_result, outcome,
                   ctrlc_rx, finished_sent, done_msg, updates, screen, debug_log, finished_seen,
                   join_order>>

\* drop(status_tx)
KeepStatusTx(held) == held
DropStatusTx(held) == FALSE

\* after the launch loop: drop the sender, initialise the loop's locals
EnterLoop ==
    /\ pc = "Launching"
    /\ next_id = N
    /\ status_tx' = DropStatusTx(status_tx)
    /\ completed' = 0
    /\ spinner' = NoSpinner
    /\ all_agents_done' = FALSE
    /\ first_print' = TRUE
    /\ results' = <<>>
    /\ pc' = "Running"
    /\ UNCHANGED <<envVars, runVars, chan, output, next_id, task_handles,
                   agent_statuses, done_msg, updates, screen, debug_log,
                   listeners, finished_seen, join_order>>

\* ------------------------------------------- SubAgent::invoke: select loop
ProgressMsg(c, n) == <<"Progress: ", ToString(c), "/", ToString(n), " agents complete">>

\* completed >= agents.len()
DoneOneEarly(c, n) == c + 1 >= n
AllDone(c, n) == c >= n

\* results.push(result)
PushFront(rs, r) == <<r>> \o rs
PushResult(rs, r) == Append(rs, r)

\* the completion branch has no break and no return: whatever the result is,
\* the loop goes on
AbortOnFailure(r) == IF r.kind = "Success" THEN "Running" ELSE "Done"
AfterCompletion(r) == "Running"

\* Some(Ok(result)) = task_handles.join_next()
JoinNext ==
    /\ pc = "Running"
    /\ \E i \in task_handles :
         /\ outcome[i].kind # "None"
         /\ task_handles' = task_handles \ {i}
         /\ results' = PushResult(results, outcome[i])
         /\ join_order' = Append(join_order, i)
         /\ pc' = AfterCompletion(outcome[i])
    /\ completed' = completed + 1
    /\ spinner' = ProgressMsg(completed', N)
    /\ all_agents_done' = (all_agents_done \/ AllDone(completed', N))
    /\ UNCHANGED <<envVars, runVars, chan, output, next_id, status_tx,
                   agent_statuses, first_print, done_msg, updates, screen,
                   debug_log, listeners, finished_seen>>

\* agent_statuses.get_mut(status_update.agent_id)
UpdateOffByOne(st, u) ==
    IF u.agent_id < Len(st)
    THEN [st EXCEPT ![u.agent_id] = [status |-> u.status, tokens_used |-> u.tokens_used]]
    ELSE st
UpdateStatuses(st, u) ==
    IF u.agent_id < Len(st)
    THEN [st EXCEPT ![u.agent_id + 1] = [status |-> u.status, tokens_used |-> u.tokens_used]]
    ELSE st

\* status_output: three lines per agent
BoardLines(ags, st) ==
    LET known == DOMAIN st
    IN [k \in 1 .. (LinesPerAgent * Len(ags)) |->
        LET i == ((k - 1) \div LinesPerAgent) + 1
            l == (k - 1) % LinesPerAgent
            row == IF i \in known THEN st[i]
                   ELSE [status |-> "Status unavailable", tokens_used |-> 0]
        IN IF l = 0 THEN <<"name", ags[i].agent_display_name, ags[i].agent_cli_name>>
           ELSE IF l = 1 THEN <<"status", row.status, row.tokens_used>>
           ELSE <<>>]

\* new_lines_printed as u16
NewLinesPrinted(ags) == (LinesPerAgent * Len(ags)) % U16

MoveUp(n) == [op |-> "MoveUp", arg |-> <<n>>]
MoveToColumn(n) == [op |-> "MoveToColumn", arg |-> <<n>>]
ClearFromCursorDown == [op |-> "Clear", arg |-> <<"FromCursorDown">>]

\* the commands one redraw queues
RedrawOps(first, ags, st) ==
    IF ~first
    THEN <<MoveUp(NewLinesPrinted(ags)), MoveToColumn(0), ClearFromCursorDown,
           StylePrint(BoardLines(ags, st))>>
    ELSE <<StylePrint(BoardLines(ags, st))>>

\* what the display shows once a command is flushed (cursor below the last line)
RECURSIVE Render(_, _)
Render(scr, ops) ==
    IF ops = <<>> THEN scr
    ELSE LET o == Head(ops)
             scr1 == IF o.op = "MoveUp"
                     THEN SubSeq(scr, 1, IF Len(scr) > o.arg[1] THEN Len(scr) - o.arg[1] ELSE 0)
                     ELSE IF o.op = "Print" THEN scr \o o.arg
                     ELSE scr
         IN Render(scr1, Tail(ops))

\* Some(status_update) = status_rx.recv()
RecvStatus ==
    /\ pc = "Running"
    /\ \E src \in AgentIds :
      /\ chan[src] # <<>>
      /\ LET u == Head(chan[src])
             st == UpdateStatuses(agent_statuses, u)
             ops == RedrawOps(first_print, agents, st)
             taken == NoSpinner  \* what spinner.take() at the top leaves behind
         IN /\ finished_seen' = [finished_seen EXCEPT ![u.agent_id] =
                                     IF u.status = FinishedStatus THEN @ + 1 ELSE @]
            /\ IF ~sink_ok
               THEN \* updates.flush()? fails, before or after the redraw is queued
                    /\ Return(Err("io"))
                    /\ \/ UNCHANGED updates
                       \/ updates' = updates \o ops
                    /\ UNCHANGED <<screen, done_msg>>
               ELSE /\ screen' = Render(screen, updates \o ops)
                    /\ updates' = <<>>
                    /\ IF all_agents_done
                       THEN /\ done_msg' = (done_msg \/ taken # NoSpinner)
                            /\ spinner' = taken
                            /\ pc' = "Done"
                       ELSE /\ spinner' = ProgressMsg(completed, N)
                            /\ pc' = "Running"
                            /\ UNCHANGED done_msg
                    /\ chan' = [chan EXCEPT ![src] = Tail(@)]
                    /\ agent_statuses' = st
                    /\ first_print' = FALSE
                    /\ UNCHANGED <<output, status_tx, task_handles, next_id,
                                   completed, all_agents_done, results>>
    /\ UNCHANGED <<envVars, runVars, debug_log, listeners, join_order>>

Running(i) == rpc[i] \in {"init", "loop", "post"}

\* status_rx.recv() returns None: every sender is dropped and nothing is queued
ChannelClosed == ~status_tx /\ \A i \in AgentIds : ~Running(i)

\* else => both branches disabled
SelectElse ==
    /\ pc = "Running"
    /\ task_handles = {}
    /\ chan = EmptyChan
    /\ ChannelClosed
    /\ done_msg' = (done_msg \/ spinner # NoSpinner)
    /\ spinner' = NoSpinner
    /\ pc' = "Done"
    /\ UNCHANGED <<envVars, runVars, chan, output, next_id, status_tx,
                   task_handles, agent_statuses, completed, all_agents_done,
                   first_print, results, updates, screen, debug_log,
                   listeners, finished_seen, join_order>>

\* process_agent_results(results, updates)? and the return of invoke
ProcessResults ==
    /\ pc = "Done"
    /\ LET r == process_agent_results(results, updates, sink_ok)
       IN /\ updates' = r.updates
          /\ Return(IF r.kind = "Ok" THEN Text(r.all_stdout) ELSE Err("io"))
    /\ UNCHANGED <<envVars, runVars, done_msg, screen, debug_log, listeners,
                   finished_seen, join_order>>

\* ------------------------------------------------------------ runner task
\* the receiver lives as long as the call of SubAgent::invoke
RxAlive == pc \in {"Launching", "Running", "Done"}

StatusUpdate(i, s, t) == [agent_id |-> i, status |-> s, tokens_used |-> t]

\* ChatSession::get_current_status
GetCurrentStatus(st) == st

\* !matches!(inner, Some(ChatState::Exit | ChatState::PromptUser { .. }))
ExitOnly == {"Exit"}
TerminalStates == {"Exit", "PromptUser"}

\* states ChatSession::next can lead to; the session ends within session_steps steps
\* ("ExecuteTools" stands for every state that is neither Exit nor PromptUser)
NextStates(i) ==
    IF tokens[i] + 1 < session_steps THEN {"ExecuteTools", "Exit", "PromptUser"}
    ELSE {"Exit", "PromptUser"}

\* what one step can append to the session's buffer
Chunks == {<<"A">>, <<"[SUMMARY]", " ", "B", " ", "[/summary]">>}

\* status_tx.send(..) on the unbounded channel: fails only without a receiver
Send(i, u) ==
    IF RxAlive
    THEN /\ chan' = [chan EXCEPT ![i] = Append(@, u)]
         /\ finished_sent' = [finished_sent EXCEPT ![i] =
                                  IF u.status = FinishedStatus THEN @ + 1 ELSE @]
    ELSE UNCHANGED <<chan, finished_sent>>

\* run_subagent_loop, up to the while loop
RunnerBegin(i) ==
    /\ rpc[i] = "init"
    /\ \E size_ok \in BOOLEAN :
         IF size_ok
         THEN /\ Send(i, StatusUpdate(i, GetCurrentStatus(inner[i]), tokens[i]))
              /\ rpc' = [rpc EXCEPT ![i] = "loop"]
              /\ UNCHANGED loop_result
         ELSE /\ loop_result' = [loop_result EXCEPT ![i] = "step"]
              /\ rpc' = [rpc EXCEPT ![i] = "post"]
              /\ UNCHANGED <<chan, finished_sent>>
    /\ UNCHANGED <<envVars, orchVars, inner, tokens, transcript, outcome, ctrlc_rx>>

\* the task ends with outcome o: its session and locals are dropped
End(i, o) ==
    /\ rpc' = [rpc EXCEPT ![i] = "ended"]
    /\ outcome' = [outcome EXCEPT ![i] = o]
    /\ inner' = [inner EXCEPT ![i] = "HandleInput"]
    /\ tokens' = [tokens EXCEPT ![i] = 0]
    /\ transcript' = [transcript EXCEPT ![i] = <<>>]
    /\ loop_result' = [loop_result EXCEPT ![i] = "None"]
    /\ ctrlc_rx' = [ctrlc_rx EXCEPT ![i] = 0]

\* one iteration of the while loop
RunnerStep(i) ==
    /\ rpc[i] = "loop"
    /\ inner[i] \notin TerminalStates
    /\ \E chunk \in Chunks, st \in NextStates(i), r \in {"ok", "step", "panic"} :
         CASE r = "ok" ->
                /\ transcript' = [transcript EXCEPT ![i] = @ \o chunk]
                /\ inner' = [inner EXCEPT ![i] = st]
                /\ tokens' = [tokens EXCEPT ![i] = @ + 1]
                /\ Send(i, StatusUpdate(i, GetCurrentStatus(st), tokens[i] + 1))
                /\ UNCHANGED <<rpc, loop_result, outcome, ctrlc_rx>>
           [] r = "step" ->
                \* subagent_session.next(..)? or get_conversation_size(..)?
                /\ transcript' = [transcript EXCEPT ![i] = @ \o chunk]
                /\ loop_result' = [loop_result EXCEPT ![i] = r]
                /\ rpc' = [rpc EXCEPT ![i] = "post"]
                /\ UNCHANGED <<inner, tokens, outcome, ctrlc_rx, chan, finished_sent>>
           [] r = "panic" ->
                \* the task unwinds: the JoinHandle resolves to a JoinError
                /\ End(i, TaskCrashed("panic"))
                /\ UNCHANGED <<chan, finished_sent>>
    /\ UNCHANGED <<envVars, orchVars>>

\* run_subagent_loop after the while loop
RunnerClose(i) ==
    /\ rpc[i] = "loop"
    /\ inner[i] \in TerminalStates
    /\ \E size_ok \in BOOLEAN :
         IF size_ok
         THEN /\ Send(i, StatusUpdate(i, FinishedStatus, tokens[i]))
              /\ loop_result' = [loop_result EXCEPT ![i] = "Ok"]
         ELSE /\ loop_result' = [loop_result EXCEPT ![i] = "step"]
              /\ UNCHANGED <<chan, finished_sent>>
    /\ rpc' = [rpc EXCEPT ![i] = "post"]
    /\ UNCHANGED <<envVars, orchVars, inner, tokens, transcript, outcome, ctrlc_rx>>

\* the early return is taken when the regex matches
SummaryReturn(t) == HasSummary(t)

\* the spawned task after run_subagent_loop: transcript, summary, final status
RunnerFinish(i) ==
    /\ rpc[i] = "post"
    /\ \E log_ok \in BOOLEAN, size_ok \in BOOLEAN :
         IF ~log_ok
         THEN \* opening or writing the per-agent debug log fails
              /\ End(i, Failure("log"))
              /\ UNCHANGED <<chan, finished_sent>>
         ELSE IF SummaryReturn(ReadAll(transcript[i]))
         THEN /\ End(i, Success(Summary(ReadAll(transcript[i]))))
              /\ UNCHANGED <<chan, finished_sent>>
         ELSE IF ~size_ok
         THEN \* get_conversation_size(..)? inside the final StatusUpdate
              /\ End(i, Failure("usage"))
              /\ UNCHANGED <<chan, finished_sent>>
         ELSE IF ~RxAlive
         THEN \* status_tx.send(..)?
              /\ End(i, Failure("send"))
              /\ UNCHANGED <<chan, finished_sent>>
         ELSE /\ Send(i, StatusUpdate(i, FinishedStatus, tokens[i]))
              /\ End(i, IF loop_result[i] = "Ok"
                        THEN Success(Fallback(ReadAll(transcript[i])))
                        ELSE Failure(loop_result[i]))
    /\ UNCHANGED <<envVars, orchVars>>

Runner(i) == RunnerBegin(i) \/ RunnerStep(i) \/ RunnerClose(i) \/ RunnerFinish(i)

Orchestrator ==
    \/ WrapperInvoke
    \/ SpawnSubagent
    \/ EnterLoop
    \/ JoinNext
    \/ RecvStatus
    \/ SelectElse
    \/ ProcessResults

Next == Orchestrator \/ \E i \in AgentIds : Runner(i)

Spec == Init /\ [][Next]_vars

\* every runner that is spawned keeps running until its task ends, and the
\* loop takes a branch of the select whenever one is ready
Fairness == WF_vars(Orchestrator) /\ \A i \in AgentIds : WF_vars(Runner(i))

\* launches whose display sink accepts every write
LiveInit == Init /\ sink_ok

LiveSpec == LiveInit /\ [][Next]_vars /\ Fairness

\* ------------------------------------------------------ interrupt fan-out
MaxBacklog == 5

\* tokio::sync::broadcast::channel(4)
Capacity == 4

\* the channel keeps the last Capacity values for a receiver that has not
\* caught up; older ones are overwritten
Retained(unread) == IF unread > Capacity THEN Capacity ELSE unread

\* the receiver made by spawn_subagent for agent i lives in its task's session
Subscribed(i) == Running(i)

\* the listener task of the i-th spawn_subagent call: ctrl_c() returns and
\* ctrlc_tx.send(()) publishes (without a receiver the send fails, which is
\* logged and changes nothing)
CtrlC(i) ==
    /\ i < listeners
    /\ Subscribed(i)
    /\ ctrlc_rx[i] < MaxBacklog
    /\ ctrlc_rx' = [ctrlc_rx EXCEPT ![i] = @ + 1]
    /\ UNCHANGED <<envVars, orchVars, chan, rpc, inner, tokens, transcript,
                   loop_result, outcome, finished_sent>>

\* the session of runner i polls its receiver during a step and takes what
\* the channel still holds
CheckInterrupt(i) ==
    /\ rpc[i] = "loop"
    /\ ctrlc_rx[i] > 0
    /\ ctrlc_rx' = [ctrlc_rx EXCEPT ![i] = 0]
    /\ UNCHANGED <<envVars, orchVars, chan, rpc, inner, tokens, transcript,
                   loop_result, outcome, finished_sent>>

\* a launch of two agents on a display sink that accepts writes
CancelInit ==
    /\ Init
    /\ ~q_subagent
    /\ sink_ok
    /\ Len(agents) = 2
    /\ \A k \in 1 .. 2 : agents[k].prompt = <<"p">>

CancelNext == Next \/ \E i \in AgentIds : CtrlC(i) \/ CheckInterrupt(i)

CancelSpec == CancelInit /\ [][CancelNext]_vars

\* ------------------------------------------- one agent with a longer session
LoopInit ==
    /\ Start
    /\ call = NoCall
    /\ session_steps = MaxLoopSteps
    /\ ~q_subagent
    /\ Len(agents) = 1
    /\ agents[1].prompt = <<"p">>

LoopSpec == LoopInit /\ [][Next]_vars

\* --------------------------------------------- one redraw of the status board
\* the largest number of agents whose board height fits MoveUp's u16, and the next
BigCounts == {(U16 - 1) \div LinesPerAgent, (U16 - 1) \div LinesPerAgent + 1}

SomeAgent == [agent_display_name |-> <<"agent">>, prompt |-> <<"p">>,
              agent_cli_name |-> "None"]

\* rows a board can hold
BoardRows ==
    [status : {LaunchingStatus, "ExecuteTools", FinishedStatus}, tokens_used : {0, 1}]

\* a launch list is given by its length; a long one comes with the initial board
RedrawInputs ==
    UNION {[first_print : BOOLEAN, agents_len : {n},
            agent_statuses : [1 .. n -> BoardRows]] : n \in 0 .. MaxAgents}
    \cup [first_print : BOOLEAN, agents_len : BigCounts, agent_statuses : {"initial"}]

RedrawInit ==
    /\ Start
    /\ ~q_subagent
    /\ agents = <<>>
    /\ sink_ok
    /\ session_steps = MaxSteps
    /\ call \in [fn : {"redraw"}, arg : RedrawInputs, ok : {TRUE}, ret : {Pending}]

\* what the progress branch queues for a launch list and a board; of the
\* printed board the number of lines is kept
Redraw ==
    /\ call.fn = "redraw"
    /\ call.ret = Pending
    /\ LET ags == [k \in 1 .. call.arg.agents_len |-> SomeAgent]
           st == IF call.arg.agents_len \in BigCounts
                 THEN InitialStatuses(call.arg.agents_len)
                 ELSE call.arg.agent_statuses
           ops == RedrawOps(call.arg.first_print, ags, st)
           board == ops[Len(ops)].arg
       IN call' = [call EXCEPT !.ret =
                      [kind |-> "Ok",
                       cursor |-> SubSeq(ops, 1, Len(ops) - 1),
                       lines |-> Len(board),
                       status_lines |->
                          IF call.arg.agents_len \in BigCounts THEN <<>>
                          ELSE [k \in 1 .. call.arg.agents_len |->
                                   board[LinesPerAgent * (k - 1) + 2]]]]
    /\ UNCHANGED <<launchEnv, buffered_io, written, orchVars, runVars, chan>>

RedrawNext == Redraw

RedrawSpec == RedrawInit /\ [][RedrawNext]_vars

\* ------------------------------------- process_agent_results called directly
MaxResults == 3

AggTexts == {<<>>, <<" ">>, <<"A">>, <<"B", " ">>}
AggOutcomes ==
    {Success(t) : t \in AggTexts} \cup {Failure("step"), TaskCrashed("panic")}
AggInputs == UNION {[1 .. n -> AggOutcomes] : n \in 0 .. MaxResults}

AggInit ==
    /\ Start
    /\ ~q_subagent
    /\ agents = <<>>
    /\ sink_ok
    /\ session_steps = MaxSteps
    /\ call \in [fn : {"process_agent_results"}, arg : AggInputs,
                 ok : BOOLEAN, ret : {Pending}]

\* process_agent_results(results, updates) on an empty `updates`
CallProcessAgentResults ==
    /\ call.fn = "process_agent_results"
    /\ call.ret = Pending
    /\ call' = [call EXCEPT !.ret = process_agent_results(call.arg, <<>>, call.ok)]
    /\ UNCHANGED <<launchEnv, buffered_io, written, orchVars, runVars, chan>>

AggNext == CallProcessAgentResults

AggSpec == AggInit /\ [][AggNext]_vars

\* ------------------------------------ the summary extraction applied directly
MaxTranscript == 5

TranscriptAtoms == {"[SUMMARY]", "[summary]", "[/summary]", " ", "\n", "X", "Y"}

\* "noise [SUMMARY] X [/SUMMARY] trailer" and "plain text, no markers"
Examples ==
    {<<"n", " ", "[SUMMARY]", " ", "X", " ", "[/SUMMARY]", " ", "t">>,
     <<"p", " ", "t", ",", " ", "n", " ", "m">>}

Transcripts ==
    UNION {[1 .. n -> TranscriptAtoms] : n \in 0 .. MaxTranscript} \cup Examples

ExtractInit ==
    /\ Start
    /\ ~q_subagent
    /\ agents = <<>>
    /\ sink_ok
    /\ session_steps = MaxSteps
    /\ call \in [fn : {"extract"}, arg : Transcripts, ok : {TRUE}, ret : {Pending}]

\* the extraction on a buffer holding call.arg
ExtractOnce ==
    /\ call.fn = "extract"
    /\ call.ret = Pending
    /\ call' = [call EXCEPT !.ret = [kind |-> "Ok", runs |-> <<ExtractSummary(call.arg)>>]]
    /\ UNCHANGED <<launchEnv, buffered_io, written, orchVars, runVars, chan>>

\* the extraction on a buffer holding the report of the first extraction
ExtractAgain ==
    /\ call.fn = "extract"
    /\ call.ret.kind = "Ok"
    /\ Len(call.ret.runs) = 1
    /\ call' = [call EXCEPT !.ret.runs = Append(@, ExtractSummary(@[1]))]
    /\ UNCHANGED <<launchEnv, buffered_io, written, orchVars, runVars, chan>>

ExtractNext == ExtractOnce \/ ExtractAgain

ExtractSpec == ExtractInit /\ [][ExtractNext]_vars

\* ------------------------------------------------------ BufferedIO used directly
MaxWrites == 4

ByteStrings == {<<>>, <<1>>, <<2, 3>>}
Handles == {"stdout", "stderr"}

\* ChatOutput for BufferedIO: the field each handle borrows
StderrOwnBuffer(io) == "err_buffer"
stderr(io) == "buffer"
stdout(io) == "buffer"

HandleOf(io, h) == IF h = "stdout" THEN stdout(io) ELSE stderr(io)

\* <Vec<u8> as Write>::write_all on the borrowed field
write_all(io, field, bytes) == [io EXCEPT ![field] = @ \o bytes]

\* <Vec<u8> as Write>::flush
flush(io, field) == io

BufInit ==
    /\ Start
    /\ ~q_subagent
    /\ agents = <<>>
    /\ sink_ok
    /\ session_steps = MaxSteps
    /\ call = NoCall

BufWrite ==
    /\ Len(written) < MaxWrites
    /\ \E h \in Handles, bytes \in ByteStrings :
         /\ buffered_io' = write_all(buffered_io, HandleOf(buffered_io, h), bytes)
         /\ written' = Append(written, [op |-> "write_all", handle |-> h, bytes |-> bytes])
    /\ UNCHANGED <<launchEnv, call, orchVars, runVars, chan>>

BufFlush ==
    /\ Len(written) < MaxWrites
    /\ \E h \in Handles :
         /\ buffered_io' = flush(buffered_io, HandleOf(buffered_io, h))
         /\ written' = Append(written, [op |-> "flush", handle |-> h, bytes |-> <<>>])
    /\ UNCHANGED <<launchEnv, call, orchVars, runVars, chan>>

BufNext == BufWrite \/ BufFlush

BufSpec == BufInit /\ [][BufNext]_vars

\* ================================================================ properties
Spawned == 0 .. (N - 1)

\* the outcomes in the order join_next delivered them
Delivered == [k \in 1 .. Len(join_order) |-> outcome[join_order[k]]]

AllWhitespace(t) == \A k \in 1 .. Len(t) : t[k] \in Whitespace

\* the successes that carry text, in list order
WithText(rs) == SelectSeq(rs, LAMBDA r : r.kind = "Success" /\ ~AllWhitespace(r.text))

RECURSIVE NumberedFrom(_, _)
NumberedFrom(ts, k) ==
    IF ts = <<>> THEN <<>>
    ELSE <<"=== Agent ", ToString(k), " Output ===\n">> \o Head(ts).text \o <<"\n\n">>
         \o NumberedFrom(Tail(ts), k + 1)

\* sections numbered 1, 2, .. m over the successes that carry text
ExpectedReport(rs) == NumberedFrom(WithText(rs), 1)

Errors(rs) == SelectSeq(rs, LAMBDA r : r.kind \in {"Failure", "TaskCrashed"})
Prints(ops) == SelectSeq(ops, LAMBDA o : o.op = "Print")
Count(t, a) == Cardinality({k \in 1 .. Len(t) : t[k] = a})

\* C1: when the select loop is left (Done), results holds exactly N outcomes,
\* one per spawned runner: every runner has ended, its handle has left the
\* JoinSet and its outcome is in results exactly once.
C1_ResultsComplete ==
    pc = "Done" =>
        /\ Len(results) = N
        /\ task_handles = {}
        /\ \A i \in Spawned : rpc[i] = "ended"
        /\ \A i \in Spawned :
             Cardinality({k \in 1 .. Len(results) :
                            join_order[k] = i /\ results[k] = outcome[i]}) = 1

C1_Witness ==
    /\ pc = "Done"
    /\ N = 2
    /\ all_agents_done
    /\ \E k \in 1 .. Len(results) : results[k].kind = "Success"
    /\ \E k \in 1 .. Len(results) : results[k].kind = "Failure"

\* C2: once the loop is entered it reaches Done, for every N >= 0 and every
\* interleaving, when every runner keeps running until it ends and the
\* display sink accepts the writes (fair scheduling).
C2_LoopTerminates == (pc = "Running") ~> (pc = "Done")

C2_Witness ==
    /\ pc = "Done"
    /\ N = 2
    /\ \E i \in Spawned : outcome[i].kind = "TaskCrashed"
    /\ \E i \in Spawned : finished_seen[i] > 0

\* C3: a runner that ended in Success, or in Failure because its step
\* sequence failed, has sent exactly one "Agent finished" event over its run.
C3_ExactlyOneFinished ==
    \A i \in AgentIds :
        (/\ rpc[i] = "ended"
         /\ \/ outcome[i].kind = "Success"
            \/ outcome[i] = Failure("step"))
        => finished_sent[i] = 1

\* C4: when the loop reaches Done it has received exactly N "Agent finished"
\* events (stated for the runs in which every runner sent exactly one).
C4_AllFinishedReceived ==
    (pc = "Done" /\ \A i \in Spawned : finished_sent[i] = 1)
        => \A i \in Spawned : finished_seen[i] = 1

\* C5: a runner that ended in Success, or in Failure because its step
\* sequence failed, has sent an "Agent finished" event before its task ended.
C5_FinishedBeforeEnd ==
    \A i \in AgentIds :
        (/\ rpc[i] = "ended"
         /\ \/ outcome[i].kind = "Success"
            \/ outcome[i] = Failure("step"))
        => finished_sent[i] >= 1

\* C6: the report returned by process_agent_results is the sections
\* "Agent 1 Output" .. "Agent m Output" in this order, m the number of Success
\* outcomes with non-blank text, the j-th carrying the j-th such text;
\* Failure and TaskCrashed outcomes use up no number.
C6_SequentialLabels ==
    (call.fn = "process_agent_results" /\ call.ret.kind = "Ok")
        => call.ret.all_stdout = ExpectedReport(call.arg)

C6_Witness ==
    /\ call.ret.kind = "Ok"
    /\ call.arg = <<Failure("step"), Success(<<"A">>), Success(<<"B", " ">>)>>
    /\ call.ret.all_stdout = <<"=== Agent ", "1", " Output ===\n", "A", "\n\n",
                               "=== Agent ", "2", " Output ===\n", "B", " ", "\n\n">>

\* C7: removing every Success outcome whose text is empty or whitespace-only
\* from the input leaves the result of process_agent_results (report and
\* error lines) unchanged.
C7_BlankSuccessDropped ==
    (call.fn = "process_agent_results" /\ call.ret # Pending)
        => call.ret =
             process_agent_results(
                SelectSeq(call.arg, LAMBDA r : ~(r.kind = "Success" /\ AllWhitespace(r.text))),
                <<>>, call.ok)

C7_Witness ==
    /\ call.ret.kind = "Ok"
    /\ Len(call.arg) = 3
    /\ call.arg[1] = Success(<<" ">>)
    /\ call.arg[2] = Success(<<>>)
    /\ call.arg[3] = Success(<<"A">>)
    /\ call.ret.all_stdout = <<"=== Agent ", "1", " Output ===\n", "A", "\n\n">>

\* C8: process_agent_results writes exactly one error line per Failure or
\* TaskCrashed outcome, in list order, "Failed to launch agent: " for a
\* Failure and "Task join error: " for a TaskCrashed, and the report holds
\* one section per Success with text and none for the other outcomes.
C8_ErrorLines ==
    (call.fn = "process_agent_results" /\ call.ret.kind = "Ok")
        => LET lines == Prints(call.ret.updates)
               errs == Errors(call.arg)
           IN /\ Len(lines) = Len(errs)
              /\ \A k \in 1 .. Len(errs) :
                   lines[k].arg =
                     <<IF errs[k].kind = "Failure" THEN "Failed to launch agent: "
                       ELSE "Task join error: ",
                       errs[k].err, "\n">>
              /\ Count(call.ret.all_stdout, "=== Agent ") = Len(WithText(call.arg))

C8_Witness ==
    /\ call.ret.kind = "Ok"
    /\ call.arg = <<TaskCrashed("panic"), Success(<<"A">>), Failure("step")>>
    /\ Len(Prints(call.ret.updates)) = 2

\* C9: results is the sequence of outcomes in the order join_next delivered
\* them, and the report numbers the sections in that order: of two agents
\* with text, the one delivered first gets the smaller label, whatever their
\* launch order.
C9_CompletionOrder ==
    /\ pc \in {"Running", "Done"} => results = Delivered
    /\ (pc = "Returned" /\ ~q_subagent /\ output.kind = "Text")
          => output.text = ExpectedReport(Delivered)

C9_Witness ==
    /\ pc = "Returned"
    /\ join_order = <<1, 0>>
    /\ outcome[0] = Success(<<"A">>)
    /\ outcome[1] = Success(<<"B">>)
    /\ output.text = <<"=== Agent ", "1", " Output ===\n", "B", "\n\n",
                       "=== Agent ", "2", " Output ===\n", "A", "\n\n">>

\* C10: with Q_SUBAGENT set, invoke returns the fixed text and has no side
\* effect: no runner and no listener is spawned, no channel is left, debug.log
\* is not truncated and nothing reaches the display sink.
C10_NestedGuard ==
    (q_subagent /\ pc # "Idle") =>
        /\ pc = "Returned"
        /\ output = Text(NestedMsg)
        /\ \A i \in AgentIds : rpc[i] = "unspawned"
        /\ listeners = 0
        /\ task_handles = {}
        /\ ~status_tx /\ chan = EmptyChan
        /\ debug_log = 0
        /\ updates = <<>> /\ screen = <<>>

C10_Witness == q_subagent /\ pc = "Returned" /\ N = 2

\* C11: an agent whose prompt is empty or whitespace-only never gets a runner:
\* on the path SubAgentWrapper::invoke -> SubAgent::invoke -> spawn_subagent
\* no task is spawned for it, while a non-blank prompt passes validation.
C11_BlankPromptNoRunner ==
    /\ \A i \in Spawned : AllWhitespace(agents[i + 1].prompt) => rpc[i] = "unspawned"
    /\ \A pr \in Prompts : ~AllWhitespace(pr) => validate(pr).kind = "Ok"

\* what belongs to runner j: its task, its session, its buffer, its sender
RunnerState(j) ==
    <<rpc[j], inner[j], tokens[j], transcript[j], loop_result[j], outcome[j],
      chan[j], finished_sent[j]>>

Failed(o) == o.kind \in {"Failure", "TaskCrashed"}

\* C12: a runner ending in Failure or crashing changes nothing of any sibling
\* runner; receiving a failed outcome leaves the loop running with the other
\* handles still in the JoinSet; and at Done every runner that ended in
\* Success has its report in results.
C12_FailuresIsolated ==
    /\ [][\A i \in AgentIds :
            (outcome[i].kind = "None" /\ Failed(outcome'[i]))
                => \A j \in AgentIds \ {i} : RunnerState(j)' = RunnerState(j)]_vars
    /\ [][(pc = "Running" /\ Len(results') = Len(results) + 1
              /\ Failed(results'[Len(results')]))
            => /\ pc' = "Running"
               /\ Cardinality(task_handles') = Cardinality(task_handles) - 1
               /\ SubSeq(results', 1, Len(results)) = results]_vars
    /\ [](pc = "Done" =>
            \A i \in Spawned :
                outcome[i].kind = "Success"
                    => \E k \in 1 .. Len(results) :
                          join_order[k] = i /\ results[k] = outcome[i])

C12_Witness ==
    /\ pc = "Done"
    /\ N = 2
    /\ Len(results) = 2
    /\ results[1].kind = "TaskCrashed"
    /\ results[2] = Success(<<"A">>)

\* the lines on `updates` that start with the given prefix
LinesWith(ops, prefix) ==
    Cardinality({k \in 1 .. Len(ops) :
                    ops[k].op = "Print" /\ Len(ops[k].arg) > 0 /\ ops[k].arg[1] = prefix})

Ended(kind) == {i \in Spawned : outcome[i].kind = kind}

\* C13: a runner whose task unwinds gets a TaskCrashed outcome, which is not a
\* Failure; the completion branch takes it (completed + 1, appended to
\* results), at Done it is in results, and the report written by the
\* aggregator has one "Task join error" line per crashed runner and one
\* "Failed to launch agent" line per Failure.
C13_CrashReported ==
    /\ [][\A i \in AgentIds :
            (pc = "Running" /\ pc' = "Running" /\ i \in task_handles
               /\ i \notin task_handles' /\ outcome[i].kind = "TaskCrashed")
            => /\ completed' = completed + 1
               /\ results' = Append(results, TaskCrashed(outcome[i].err))]_vars
    /\ [](pc = "Done" =>
            \A i \in Ended("TaskCrashed") :
               \E k \in 1 .. Len(results) :
                  /\ join_order[k] = i
                  /\ results[k].kind = "TaskCrashed"
                  /\ results[k].kind # "Failure")
    /\ []((pc = "Returned" /\ ~q_subagent /\ output.kind = "Text") =>
            /\ LinesWith(updates, "Task join error: ") = Cardinality(Ended("TaskCrashed"))
            /\ LinesWith(updates, "Failed to launch agent: ") = Cardinality(Ended("Failure")))

C13_Witness ==
    /\ pc = "Returned"
    /\ output.kind = "Text"
    /\ N = 2
    /\ outcome[0].kind = "TaskCrashed"
    /\ outcome[1].kind = "Failure"
    /\ LinesWith(updates, "Task join error: ") = 1
    /\ LinesWith(updates, "Failed to launch agent: ") = 1

IsOpenTag(a) == a \in {"[SUMMARY]", "[summary]"}
IsCloseTag(a) == a \in {"[/SUMMARY]", "[/summary]"}
IsSpace(a) == a \in {" ", "\n"}

\* t holds an opening tag with a closing tag somewhere after it
HasRegion(t) ==
    \E p, q \in 1 .. Len(t) : p < q /\ IsOpenTag(t[p]) /\ IsCloseTag(t[q])

\* r is what lies between the first opening tag of t and the first closing
\* tag after it, without the whitespace at its two ends
IsFirstRegionTrimmed(t, r) ==
    \E p, q \in 1 .. Len(t) :
        /\ p < q
        /\ IsOpenTag(t[p]) /\ \A k \in 1 .. (p - 1) : ~IsOpenTag(t[k])
        /\ IsCloseTag(t[q]) /\ \A k \in (p + 1) .. (q - 1) : ~IsCloseTag(t[k])
        /\ \E a \in (p + 1) .. q, b \in p .. (q - 1) :
              /\ r = SubSeq(t, a, b)
              /\ \A k \in (p + 1) .. (a - 1) : IsSpace(t[k])
              /\ \A k \in (b + 1) .. (q - 1) : IsSpace(t[k])
              /\ r # <<>> => (~IsSpace(r[1]) /\ ~IsSpace(r[Len(r)]))

\* C14: for a transcript with a marker region (tags in either case, the
\* region may span lines) the extraction gives the text between the first
\* opening tag and the first closing tag after it, trimmed; nothing outside
\* the region and no later region is in the result.
C14_MarkerExtraction ==
    (call.fn = "extract" /\ call.ret # Pending /\ HasRegion(call.arg))
        => IsFirstRegionTrimmed(call.arg, call.ret.runs[1])

C14_Witness ==
    /\ call.fn = "extract"
    /\ call.arg = <<"n", " ", "[SUMMARY]", " ", "X", " ", "[/SUMMARY]", " ", "t">>
    /\ call.ret # Pending
    /\ call.ret.runs[1] = <<"X">>

\* C15: for a transcript without a complete marker region the extraction
\* gives the whole transcript unchanged, and extracting again from any
\* extraction result gives that same result.
C15_FallbackIdempotent ==
    (call.fn = "extract" /\ call.ret # Pending)
        => /\ ~HasRegion(call.arg) => call.ret.runs[1] = call.arg
           /\ Len(call.ret.runs) = 2 => call.ret.runs[2] = call.ret.runs[1]

C15_Witness ==
    /\ call.fn = "extract"
    /\ call.arg = <<"[SUMMARY]", "[summary]", "X", "[/summary]", "Y">>
    /\ call.ret # Pending
    /\ call.ret.runs = <<(<<"[summary]", "X">>), (<<"[summary]", "X">>)>>

\* everything written so far, in call order
RECURSIVE AllBytes(_)
AllBytes(ws) == IF ws = <<>> THEN <<>> ELSE Head(ws).bytes \o AllBytes(Tail(ws))

IsPrefix(a, b) == Len(a) <= Len(b) /\ SubSeq(b, 1, Len(a)) = a

\* C16: a BufferedIO starts empty; after any sequence of writes through its
\* stdout and stderr handles the one buffer is the concatenation of the
\* written byte strings in call order; a write only appends, and a flush or
\* an empty write leaves the buffer as it was.
C16_SingleBuffer ==
    /\ [](written = <<>> => buffered_io.buffer = <<>>)
    /\ [](DOMAIN buffered_io = {"buffer"} /\ buffered_io.buffer = AllBytes(written))
    /\ [][IsPrefix(buffered_io.buffer, buffered_io.buffer')]_vars
    /\ [][(Len(written') = Len(written) + 1 /\ written'[Len(written')].bytes = <<>>)
            => buffered_io' = buffered_io]_vars

C16_Witness ==
    /\ written = <<[op |-> "write_all", handle |-> "stdout", bytes |-> <<1>>],
                   [op |-> "write_all", handle |-> "stderr", bytes |-> <<2, 3>>],
                   [op |-> "flush", handle |-> "stderr", bytes |-> <<>>],
                   [op |-> "write_all", handle |-> "stdout", bytes |-> <<1>>]>>
    /\ buffered_io.buffer = <<1, 2, 3, 1>>

\* C17: a running runner has its interrupt subscription (made before its task
\* was spawned), and every interrupt published since the runner last checked
\* is still held for it, however many were published in between.
C17_NoInterruptLost ==
    \A i \in AgentIds :
        Running(i) => /\ i < listeners
                      /\ Retained(ctrlc_rx[i]) = ctrlc_rx[i]

\* the spawned task leaves its last part with an outcome
Finishes(i) == rpc[i] = "post" /\ rpc'[i] = "ended"

\* C18: a runner returns Success(extracted summary) whenever its transcript
\* holds a marker region, Success(whole transcript) when it holds none and the
\* step sequence succeeded, and Failure only when the step sequence failed
\* and no region was found (failures of the per-agent debug log aside).
C18_OutcomeRule ==
    [][\A i \in AgentIds :
         (Finishes(i) /\ outcome'[i] # Failure("log")) =>
            /\ HasRegion(transcript[i])
                 => /\ outcome'[i].kind = "Success"
                    /\ IsFirstRegionTrimmed(transcript[i], outcome'[i].text)
            /\ (~HasRegion(transcript[i]) /\ loop_result[i] = "Ok")
                 => outcome'[i] = Success(transcript[i])
            /\ outcome'[i].kind = "Failure"
                 => (loop_result[i] # "Ok" /\ ~HasRegion(transcript[i]))]_vars

\* C19: a runner whose step sequence failed (a step or a usage query inside
\* run_subagent_loop returned an error) ends in Failure, never in Success.
C19_FailedSequenceFails ==
    [][\A i \in AgentIds :
         (Finishes(i) /\ loop_result[i] # "Ok") => outcome'[i].kind = "Failure"]_vars

\* runner i, inside the while loop, touches its session or unwinds
StepAttempt(i) ==
    /\ rpc[i] = "loop"
    /\ \/ inner'[i] # inner[i]
       \/ tokens'[i] # tokens[i]
       \/ transcript'[i] # transcript[i]
       \/ outcome'[i].kind = "TaskCrashed"

\* runner i completes one iteration of the while loop
StepDone(i) == rpc[i] = "loop" /\ rpc'[i] = "loop" /\ tokens'[i] # tokens[i]

\* C20: run_subagent_loop steps the agent only while its state is neither
\* Exit nor PromptUser: in such a state it makes no step and leaves the loop
\* with the session untouched; every completed step sends exactly one event
\* with the agent's id, its status after the step and its usage count, before
\* anything else of that runner happens.
C20_StepsUntilTerminal ==
    [][\A i \in AgentIds :
         /\ StepAttempt(i) => inner[i] \notin {"Exit", "PromptUser"}
         /\ (rpc[i] = "loop" /\ inner[i] \in {"Exit", "PromptUser"} /\ rpc'[i] # "loop")
              => /\ rpc'[i] = "post"
                 /\ <<inner[i], tokens[i], transcript[i]>>' = <<inner[i], tokens[i], transcript[i]>>
         /\ StepDone(i)
              => /\ tokens'[i] = tokens[i] + 1
                 /\ IF RxAlive
                    THEN chan'[i] = Append(chan[i], [agent_id |-> i,
                                                     status |-> GetCurrentStatus(inner'[i]),
                                                     tokens_used |-> tokens'[i]])
                    ELSE chan'[i] = chan[i]]_vars

C20_Witness ==
    /\ session_steps = MaxLoopSteps
    /\ rpc[0] = "loop"
    /\ tokens[0] = 2
    /\ inner[0] = "PromptUser"
    /\ Len(chan[0]) = 3
    /\ chan[0][1] = [agent_id |-> 0, status |-> "HandleInput", tokens_used |-> 0]
    /\ chan[0][2] = [agent_id |-> 0, status |-> "ExecuteTools", tokens_used |-> 1]
    /\ chan[0][3] = [agent_id |-> 0, status |-> "PromptUser", tokens_used |-> 2]

\* the loop takes one event sent by agent i off the channel
Processed(i) ==
    /\ pc = "Running"
    /\ pc' \in {"Running", "Done"}
    /\ Len(chan'[i]) = Len(chan[i]) - 1

Row(u) == [status |-> u.status, tokens_used |-> u.tokens_used]

\* C21: the loop processes the events of one agent in the order the agent
\* sent them (whichever agent's event comes next); the board starts with
\* ("Launching agent...", 0) in every row, changes only when an event is
\* processed, and processing an event of agent i sets row i to that event and
\* leaves every other row as it was; an event whose agent_id is not a row of
\* the board changes nothing.
C21_RowsFollowEvents ==
    /\ [][\A i \in AgentIds :
            Processed(i) =>
               /\ chan'[i] = Tail(chan[i])
               /\ Head(chan[i]).agent_id = i
               /\ agent_statuses'[i + 1] = Row(Head(chan[i]))
               /\ \A j \in 1 .. N : j # i + 1 => agent_statuses'[j] = agent_statuses[j]]_vars
    /\ [][(pc = "Running" /\ pc' # "Returned" /\ agent_statuses' # agent_statuses)
            => \E i \in AgentIds : Processed(i)]_vars
    /\ [](pc = "Launching" =>
            /\ Len(agent_statuses) = N
            /\ \A k \in 1 .. N :
                  agent_statuses[k] = [status |-> "Launching agent...", tokens_used |-> 0])
    /\ [](\A n \in 0 .. MaxAgents, id \in 0 .. MaxAgents :
            id >= n =>
               UpdateStatuses(InitialStatuses(n),
                              [agent_id |-> id, status |-> "Exit", tokens_used |-> 1])
                 = InitialStatuses(n))

C21_Witness ==
    /\ pc = "Running"
    /\ N = 2
    /\ agent_statuses[1] = [status |-> "Launching agent...", tokens_used |-> 0]
    /\ agent_statuses[2] = [status |-> "Exit", tokens_used |-> 1]
    /\ Len(chan[0]) = 2
    /\ chan[1] # <<>>

\* C22: the first redraw only prints the board; every later redraw moves the
\* cursor up by exactly 3 * N lines, to column 0, clears from there down and
\* prints the board; the board printed is always 3 * N lines, the status line
\* of agent k taken from row k, for every N.
C22_RedrawDiscipline ==
    (call.fn = "redraw" /\ call.ret # Pending) =>
        LET n == call.arg.agents_len
        IN /\ call.ret.lines = 3 * n
           /\ n <= MaxAgents =>
                 \A k \in 1 .. n :
                    call.ret.status_lines[k] =
                       <<"status", call.arg.agent_statuses[k].status,
                         call.arg.agent_statuses[k].tokens_used>>
           /\ call.arg.first_print => call.ret.cursor = <<>>
           /\ ~call.arg.first_print =>
                 call.ret.cursor = <<[op |-> "MoveUp", arg |-> <<3 * n>>],
                                     [op |-> "MoveToColumn", arg |-> <<0>>],
                                     [op |-> "Clear", arg |-> <<"FromCursorDown">>]>>

\* C23: when the loop reaches Done, every row of the status board, and every
\* status line of the last board drawn, shows "Agent finished".
C23_AllRowsFinished ==
    pc = "Done" =>
        \A k \in 1 .. N :
            /\ agent_statuses[k].status = FinishedStatus
            /\ ~first_print =>
                  screen[Len(screen) - LinesPerAgent * N
                         + LinesPerAgent * (k - 1) + 2][2] = FinishedStatus

\* C24: at any time at most one interrupt listener task is alive, whatever
\* the number of agents launched (a listener task never ends once spawned).
C24_SingleListener == listeners <= 1

\* C25: when invoke has returned the error of a failed profile switch, the
\* select loop was never entered (nothing joined, nothing drawn) and no runner
\* started for an earlier agent is still executing.
C25_LaunchFailureStopsRunners ==
    (pc = "Returned" /\ output = Err("switch")) =>
        /\ join_order = <<>>
        /\ screen = <<>>
        /\ \A i \in AgentIds : ~Running(i)

====
